---- MODULE Spec2Model ----
(***************************************************************************)
(* Blastline SKU configurator (src/app.py): the SKU assembler of home(),   *)
(* the matrix export generate_full_matrix(), and the helpers they share    *)
(* (normalize_fields, ordered_fields).                                     *)
(*                                                                         *)
(* Strings that are cut, joined or searched (codes, separators, SKUs) are  *)
(* sequences of one-character strings; names that are only compared are    *)
(* TLA+ strings.  An optional dictionary key is a sequence of length 0     *)
(* (key absent) or 1 (key present with that value).                        *)
(***************************************************************************)
EXTENDS Integers, Sequences, FiniteSets, TLC

VARIABLES
    cat_data,       \* inv[cat]: the category dictionary the page works on
    sel,            \* home(): field name -> [code, name] of the selection
    chosen,         \* home(): list of the chosen extras [code, name]
    base,           \* home(): joined field codes
    extras_codes,   \* home(): concatenated extras codes
    sku,            \* home(): the generated SKU
    selected_name,  \* input of home(): the radio value (Single mode)
    ticked,         \* input of home(): the ticked extras, as positions in cat_data.extras
    matrix_df,      \* result of generate_full_matrix: None, or Some(data frame)
    error,          \* "" or the exception the last call raised
    pc,             \* the last call: "init", "home", "matrix", "normalize" or "ordered"
    typed,          \* input of home(): text field name -> the string typed
    field_order,    \* result of ordered_fields: None, or Some(list of names)
    loaded,         \* None, or Some(the category as it was loaded, before any call)
    normalize_calls,   \* the number of direct calls of normalize_fields(cat_data)
    first_normalized,  \* None, or Some(cat_data after the first of these calls)
    inventory,      \* st.session_state["sku_data"]["inventory"]: category name -> category
    confirm_delete_cat,   \* st.session_state["confirm_delete_cat"]: None or Some(name)
    viewed,         \* admin(): None, or Some(category selected in the page as last drawn)
    message,        \* "", or "error" / "success": the last show_error / show_success
    import_report,  \* None, or Some([added, skipped]) of the last merge
    sku_history,    \* st.session_state["sku_history"]
    history_calls,  \* the number of calls of add_to_sku_history
    decoded,        \* None, or Some(the list decode_sku returned)
    total_combinations,  \* None, or Some(the count the export tab announces)
    submitted,      \* input of admin(): the name last submitted in the add form
    uploaded,       \* admin(): the file uploader, None or Some(the file it holds)
    import_mode     \* admin(): the import mode radio, "Replace" or "Merge"

\* The variables of home(), generate_full_matrix and the helpers
core_vars == <<cat_data, sel, chosen, base, extras_codes, sku, selected_name, ticked,
               matrix_df, error, pc, typed, field_order, loaded, normalize_calls,
               first_normalized>>

\* The variables of the admin, history and decoder pages
page_vars == <<inventory, confirm_delete_cat, viewed, message, import_report,
               sku_history, history_calls, decoded, total_combinations, submitted,
               uploaded, import_mode>>

\* The variables of the other pages that the export tab leaves alone
page_vars_but_total == <<inventory, confirm_delete_cat, viewed, message, import_report,
                         sku_history, history_calls, decoded, submitted, uploaded,
                         import_mode>>

vars == <<cat_data, sel, chosen, base, extras_codes, sku, selected_name, ticked,
          matrix_df, error, pc, typed, field_order, loaded, normalize_calls,
          first_normalized, inventory, confirm_delete_cat, viewed, message,
          import_report, sku_history, history_calls, decoded, total_combinations,
          submitted, uploaded, import_mode>>

---------------------------------------------------------------------------
(* Optional values and strings *)

None == <<>>
Some(x) == <<x>>
Get(o, default) == IF o = None THEN default ELSE o[1]

Range(s) == {s[i] : i \in 1..Len(s)}

\* s[i..] starts with p
StartsAt(s, i, p) ==
    /\ i + Len(p) - 1 <= Len(s)
    /\ \A j \in 1..Len(p) : s[i + j - 1] = p[j]

StartsWith(s, p) == StartsAt(s, 1, p)
EndsWith(s, p) == Len(p) <= Len(s) /\ StartsAt(s, Len(s) - Len(p) + 1, p)
Contains(s, p) == \E i \in 1..(Len(s) + 1) : StartsAt(s, i, p)

\* "".join(parts)
RECURSIVE Concat(_)
Concat(parts) ==
    IF parts = <<>> THEN <<>> ELSE Head(parts) \o Concat(Tail(parts))

\* sep.join(parts)
RECURSIVE Join(_, _)
Join(sep, parts) ==
    IF parts = <<>> THEN <<>>
    ELSE IF Len(parts) = 1 THEN parts[1]
    ELSE parts[1] \o sep \o Join(sep, Tail(parts))

---------------------------------------------------------------------------
(* Program constants *)

DEFAULT_SEPARATOR == <<"-">>
DEFAULT_EXTRAS_MODE == "Single"
DEFAULT_ORDER == 999

---------------------------------------------------------------------------
(* Helpers of the program *)

\* cat.get("settings", {}).get("separator", DEFAULT_SEPARATOR)
Separator(cat) == Get(cat.settings.separator, DEFAULT_SEPARATOR)

\* cat.get("settings", {}).get("extras_mode", DEFAULT_EXTRAS_MODE)
ExtrasMode(cat) == Get(cat.settings.extras_mode, DEFAULT_EXTRAS_MODE)

\* normalize_fields without the branch that keeps a dict: only the wrapped
\* bare lists reach the new mapping
normalize_fields_drop_dicts(cat) ==
    LET bare == SelectSeq([i \in 1..Len(cat.fields) |-> i],
                          LAMBDA i : ~cat.fields[i].v.isdict)
    IN  [cat EXCEPT !.fields =
            [j \in 1..Len(bare) |->
                [name |-> cat.fields[bare[j]].name,
                 v |-> [isdict |-> TRUE, order |-> Some(bare[j]),
                        options |-> cat.fields[bare[j]].v.options]]]]

\* normalize_fields with enumerate() left at its default start of 0
normalize_fields_from_zero(cat) ==
    [cat EXCEPT !.fields =
        [i \in 1..Len(cat.fields) |->
            IF cat.fields[i].v.isdict
            THEN cat.fields[i]
            ELSE [name |-> cat.fields[i].name,
                  v |-> [isdict |-> TRUE, order |-> Some(i - 1),
                         options |-> cat.fields[i].v.options]]]]

\* The fields mapping is a dict, kept as the sequence of its items in
\* insertion order: <<[name |-> k, v |-> value], ...>>.  A value is a dict
\* (isdict) with optional keys order and options, or a bare option list
\* (isdict = FALSE, the list under options).
normalize_fields(cat) ==
    [cat EXCEPT !.fields =
        [i \in 1..Len(cat.fields) |->
            IF cat.fields[i].v.isdict
            THEN cat.fields[i]
            ELSE [name |-> cat.fields[i].name,
                  v |-> [isdict |-> TRUE, order |-> Some(i),
                         options |-> cat.fields[i].v.options]]]]

\* SortedPositions without the sort: the items in the order they come
SortedPositionsUnsorted(keys, n) == [i \in 1..n |-> i]

\* SortedPositions that is not stable: an item goes before the items of equal key
RECURSIVE SortedPositionsUnstable(_, _)
SortedPositionsUnstable(keys, n) ==
    IF n = 0 THEN <<>>
    ELSE LET prev == SortedPositionsUnstable(keys, n - 1)
             lt == {j \in 1..Len(prev) : keys[prev[j]] < keys[n]}
             at == IF lt = {} THEN 0 ELSE CHOOSE j \in lt : \A k \in lt : k <= j
         IN  SubSeq(prev, 1, at) \o <<n>> \o SubSeq(prev, at + 1, Len(prev))

\* sorted(..., key=...) is stable: an item goes after every item whose key
\* is not larger.  keys[i] is the key of the i-th item; the result is the
\* sequence of positions in sorted order.
RECURSIVE SortedPositions(_, _)
SortedPositions(keys, n) ==
    IF n = 0 THEN <<>>
    ELSE LET prev == SortedPositions(keys, n - 1)
             le == {j \in 1..Len(prev) : keys[prev[j]] <= keys[n]}
             at == IF le = {} THEN 0 ELSE CHOOSE j \in le : \A k \in le : k <= j
         IN  SubSeq(prev, 1, at) \o <<n>> \o SubSeq(prev, at + 1, Len(prev))

\* OrderedFieldPositions with 0 as the default order
OrderedFieldPositionsDefaultZero(fields) ==
    SortedPositions([i \in 1..Len(fields) |-> Get(fields[i].v.order, 0)], Len(fields))

\* The positions (in insertion order) of the fields, sorted by
\* fields[k].get("order", 999).
OrderedFieldPositions(fields) ==
    SortedPositions([i \in 1..Len(fields) |-> Get(fields[i].v.order, DEFAULT_ORDER)],
                    Len(fields))

ordered_fields(fields) ==
    LET pos == OrderedFieldPositions(fields)
    IN  [i \in 1..Len(pos) |-> fields[pos[i]].name]

\* is_text = opts and opts[0].get("type") == "text"
IsText(opts) == opts # <<>> /\ opts[1].type = Some("text")

\* sorted(extras, key=lambda x: x.get("order", 999)), as positions in extras
SortedExtraPositions(extras) ==
    SortedPositions([i \in 1..Len(extras) |-> Get(extras[i].order, DEFAULT_ORDER)],
                    Len(extras))

\* Python truthiness of e.get("code")
HasCode(e) == e.code # None /\ e.code[1] # <<>>

---------------------------------------------------------------------------
(* home(): the assembler.  inp[f] is what the user entered for field f:    *)
(* idx, the position of the option picked in the select box, and text,     *)
(* the content of the text input.                                          *)

\* The loop over ordered_fields(fields) raises KeyError on fields[f]["options"]
\* of a dict without options, and on x['code'] (the select box formats every
\* option with format_func) or o["code"] of an option without code.
HomeRaises(fields, inp) ==
    \E i \in 1..Len(fields) :
        \/ fields[i].v.options = None
        \/ LET opts == fields[i].v.options[1]
           IN  /\ ~IsText(opts)
               /\ opts # <<>>
               /\ \/ opts[inp[fields[i].name].idx].code = None
                  \/ \E j \in 1..Len(opts) : opts[j].code = None

\* HomeSel recording an empty selection for a drop-down without options
HomeSelRecordsEmpty(fields, inp) ==
    [f \in {fields[i].name : i \in 1..Len(fields)} |->
        LET opts == fields[CHOOSE i \in 1..Len(fields) : fields[i].name = f].v.options[1]
        IN  IF opts = <<>> THEN [code |-> <<>>, name |-> <<>>]
            ELSE IF IsText(opts)
            THEN [code |-> inp[f].text, name |-> inp[f].text]
            ELSE [code |-> opts[inp[f].idx].code[1],
                  name |-> opts[inp[f].idx].name]]

\* HomeSel with the separator character taken out of the typed code
HomeSelCleaned(fields, inp) ==
    LET has == {i \in 1..Len(fields) : fields[i].v.options[1] # <<>>}
        at(f) == CHOOSE i \in has : fields[i].name = f
    IN  [f \in {fields[i].name : i \in has} |->
            LET opts == fields[at(f)].v.options[1]
            IN  IF IsText(opts)
                THEN [code |-> SelectSeq(inp[f].text, LAMBDA ch : ch # "-"),
                      name |-> inp[f].text]
                ELSE [code |-> opts[inp[f].idx].code[1],
                      name |-> opts[inp[f].idx].name]]

\* sel after the loop: text fields take the typed string as code and name,
\* dropdowns with options take the picked option, other fields get no entry.
HomeSel(fields, inp) ==
    LET has == {i \in 1..Len(fields) : fields[i].v.options[1] # <<>>}
        at(f) == CHOOSE i \in has : fields[i].name = f
    IN  [f \in {fields[i].name : i \in has} |->
            LET opts == fields[at(f)].v.options[1]
            IN  IF IsText(opts)
                THEN [code |-> inp[f].text, name |-> inp[f].text]
                ELSE [code |-> opts[inp[f].idx].code[1],
                      name |-> opts[inp[f].idx].name]]

\* The radio entry that stands for no extra
NONE_LABEL == <<"N", "o", "n", "e">>

\* SingleChosen without the break: every extra with the selected name and a code
SingleChosenNoBreak(extras, name) ==
    LET pos == SortedExtraPositions(extras)
        hit == SelectSeq(pos, LAMBDA p : extras[p].name = name /\ HasCode(extras[p]))
    IN  IF name = NONE_LABEL THEN <<>>
        ELSE [i \in 1..Len(hit) |->
                 [code |-> extras[hit[i]].code[1], name |-> extras[hit[i]].name]]

\* Single mode: the first extra in sorted order with the selected name and a code
SingleChosen(extras, name) ==
    LET pos == SortedExtraPositions(extras)
        hit == {i \in 1..Len(pos) : extras[pos[i]].name = name /\ HasCode(extras[pos[i]])}
    IN  IF name = NONE_LABEL \/ hit = {} THEN <<>>
        ELSE LET i == CHOOSE j \in hit : \A k \in hit : j <= k
             IN  <<[code |-> extras[pos[i]].code[1], name |-> extras[pos[i]].name]>>

\* MultipleOrder reading the extras in stored order
MultipleOrderStored(extras) == [i \in 1..Len(extras) |-> i]

\* Multiple mode: the check boxes are laid out and read in sorted order
MultipleOrder(extras) == SortedExtraPositions(extras)

MultipleChosen(extras, tick) ==
    LET pos == MultipleOrder(extras)
        keep == SelectSeq(pos, LAMBDA p : p \in tick /\ HasCode(extras[p]))
    IN  [i \in 1..Len(keep) |->
            [code |-> extras[keep[i]].code[1], name |-> extras[keep[i]].name]]

HomeChosen(cat, name, tick) ==
    IF cat.extras = <<>> THEN <<>>
    ELSE IF ExtrasMode(cat) = "Single" THEN SingleChosen(cat.extras, name)
    ELSE MultipleChosen(cat.extras, tick)

\* BaseParts without the test of sel[k]["code"]: empty codes become segments
BasePartsKeepEmpty(fields, s) ==
    LET names == ordered_fields(fields)
        keep == SelectSeq(names, LAMBDA k : k \in DOMAIN s)
    IN  [i \in 1..Len(keep) |-> s[keep[i]].code]

\* [sel[k]["code"] for k in ordered_fields(fields) if sel.get(k) and sel[k]["code"]]
BaseParts(fields, s) ==
    LET names == ordered_fields(fields)
        keep == SelectSeq(names, LAMBDA k : k \in DOMAIN s /\ s[k].code # <<>>)
    IN  [i \in 1..Len(keep) |-> s[keep[i]].code]

\* AssembleSku with the separator inserted whatever the two parts are
AssembleSkuAlwaysSep(sep, b, e) == b \o sep \o e

\* AssembleSku with the test of base left out
AssembleSkuNoBaseTest(sep, b, e) ==
    b \o (IF e # <<>> THEN sep ELSE <<>>) \o e

\* base + (sep if base and extras_codes else "") + extras_codes
AssembleSku(sep, b, e) ==
    b \o (IF b # <<>> /\ e # <<>> THEN sep ELSE <<>>) \o e

---------------------------------------------------------------------------
(* generate_full_matrix(cat_data) *)

\* IsDimension without the test of is_text
IsDimensionAnyOptions(opts) == opts # <<>>

\* not is_text and opts: the field is a dimension of the product
IsDimension(opts) == ~IsText(opts) /\ opts # <<>>

\* The positions of the fields that become dimensions, in ordered_fields order
DimensionPositions(fields) ==
    SelectSeq(OrderedFieldPositions(fields),
              LAMBDA p : IsDimension(fields[p].v.options[1]))

\* itertools.product(*dims): the last dimension varies fastest
RECURSIVE Product(_)
Product(dims) ==
    IF dims = <<>> THEN << <<>> >>
    ELSE LET rest == Product(Tail(dims))
             first == Head(dims)
             block(x) == [j \in 1..Len(rest) |-> <<x>> \o rest[j]]
         IN  Concat([i \in 1..Len(first) |-> block(first[i])])

\* sku = sep.join(combo)
RowSku(sep, combo) == Join(sep, combo)

\* NoCombos without the early return
NoCombosNever(field_combos) == FALSE

\* if not field_combos: return pd.DataFrame(columns=["SKU"] + field_names)
NoCombos(field_combos) == field_combos = <<>>

\* The loop raises KeyError on fields[f]["options"] and on o["code"]
MatrixRaises(fields) ==
    \E i \in 1..Len(fields) :
        \/ fields[i].v.options = None
        \/ LET opts == fields[i].v.options[1]
           IN  IsDimension(opts) /\ \E j \in 1..Len(opts) : opts[j].code = None

\* The data frame returned: its columns, and one row per combination with
\* the SKU and combo[i], the value of the column of field_names[i].
generate_full_matrix(cat) ==
    LET fields == normalize_fields(cat).fields
        sep == Separator(cat)
        dims == DimensionPositions(fields)
        field_names == [i \in 1..Len(dims) |-> fields[dims[i]].name]
        field_combos == [i \in 1..Len(dims) |->
                            LET opts == fields[dims[i]].v.options[1]
                            IN  [j \in 1..Len(opts) |-> opts[j].code[1]]]
        combinations == Product(field_combos)
    IN  IF NoCombos(field_combos)
        THEN [columns |-> <<"SKU">> \o field_names, rows |-> <<>>]
        ELSE [columns |-> <<"SKU">> \o field_names,
              rows |-> [i \in 1..Len(combinations) |->
                           [SKU |-> RowSku(sep, combinations[i]),
                            combo |-> combinations[i]]]]

---------------------------------------------------------------------------
(* The configurations and user inputs the model draws from *)

MaxOpts == 2      \* options per generated drop-down field
MaxExtras == 2    \* extras per generated category

SeqsUpTo(S, n) == UNION {[1..k -> S] : k \in 0..n}

FieldNameSeq == <<"Brand", "Capacity">>
FieldCodes(f) == IF f = "Brand" THEN {<<>>, <<"A">>} ELSE {<<>>, <<"B">>}
TextInputs == {<<>>, <<"T">>, <<"-">>}

DropOption(c) == [code |-> Some(c), name |-> <<"n">> \o c, order |-> None, type |-> None]

\* The option list the admin page stores for a "Text Input" field
TEXT_OPTIONS == <<[code |-> Some(<<>>), name |-> <<>>, order |-> None, type |-> Some("text")]>>

OptionLists(f) ==
    SeqsUpTo({DropOption(c) : c \in FieldCodes(f)}, MaxOpts) \cup {TEXT_OPTIONS}

BareList(opts) == [isdict |-> FALSE, order |-> None, options |-> Some(opts)]
FieldDict(ord, opts) == [isdict |-> TRUE, order |-> ord, options |-> Some(opts)]

FieldValues(f) ==
    {BareList(o) : o \in OptionLists(f)}
    \cup {FieldDict(ord, o) : ord \in {None, Some(1)}, o \in OptionLists(f)}

FieldMaps ==
    UNION {{m \in [1..k -> [name : Range(FieldNameSeq),
                            v : UNION {FieldValues(f) : f \in Range(FieldNameSeq)}]] :
               \A i \in 1..k : m[i].name = FieldNameSeq[i] /\ m[i].v \in FieldValues(m[i].name)}
           : k \in 0..Len(FieldNameSeq)}

Extra(c, n, ord) == [code |-> Some(c), name |-> n, order |-> ord]

ExtraLists ==
    SeqsUpTo({Extra(c, n, ord) : c \in {<<>>, <<"R">>, <<"W">>},
                                 n \in {<<"x">>, <<"y">>},
                                 ord \in {None, Some(1)}}, MaxExtras)

Settings(sep, mode) == [separator |-> sep, extras_mode |-> mode]

Category(f, e, s) == [fields |-> f, extras |-> e, settings |-> s]

\* Every shape of the fields, with few extras
FieldFocus ==
    {Category(f, e, Settings(Some(sep), Some("Multiple"))) :
        f \in FieldMaps,
        e \in {<<>>, <<Extra(<<"R">>, <<"x">>, Some(1))>>},
        sep \in {<<>>, <<"-">>}}

\* Every list of extras, with one field
ExtrasFocus ==
    {Category(<<[name |-> "Brand", v |-> FieldDict(Some(1), <<DropOption(<<"A">>)>>)]>>,
              e, Settings(Some(<<"-">>), mode)) :
        e \in ExtraLists, mode \in {None, Some("Single"), Some("Multiple")}}

\* Every separator, with a text field and extras made of separator characters
SettingsFocus ==
    {Category(<<[name |-> "Brand", v |-> FieldDict(Some(1), <<DropOption(<<"A">>)>>)],
                [name |-> "Capacity", v |-> FieldDict(Some(2), TEXT_OPTIONS)]>>,
              e, Settings(sep, mode)) :
        e \in {<<>>, <<Extra(<<"-">>, <<"x">>, Some(1)), Extra(<<"-">>, <<"y">>, Some(2))>>},
        sep \in {None, Some(<<>>), Some(<<"-">>), Some(<<"-", "-">>)},
        mode \in {None, Some("Single"), Some("Multiple")}}

\* The category of the concrete scenarios: Brand = {BL}, Capacity = {20, 24},
\* extras R and W
BlastMachine(mode) ==
    Category(
        <<[name |-> "Brand",
           v |-> FieldDict(Some(1), <<DropOption(<<"B", "L">>)>>)],
          [name |-> "Capacity",
           v |-> FieldDict(Some(2), <<DropOption(<<"2", "0">>), DropOption(<<"2", "4">>)>>)]>>,
        <<Extra(<<"R">>, <<"r">>, Some(1)), Extra(<<"W">>, <<"w">>, Some(2))>>,
        Settings(Some(<<"-">>), Some(mode)))

Categories ==
    FieldFocus \cup ExtrasFocus \cup SettingsFocus
    \cup {BlastMachine("Multiple"), BlastMachine("Single")}

\* What the widgets of a field can return
FieldInputs(v) ==
    LET opts == v.options[1]
    IN  IF v.options = None THEN {[idx |-> 0, text |-> <<>>]}
        ELSE IF IsText(opts) THEN {[idx |-> 0, text |-> t] : t \in TextInputs}
        ELSE IF opts = <<>> THEN {[idx |-> 0, text |-> <<>>]}
        ELSE {[idx |-> i, text |-> <<>>] : i \in 1..Len(opts)}

HomeInputs(fields) ==
    {inp \in [{fields[i].name : i \in 1..Len(fields)} ->
                 UNION {FieldInputs(fields[i].v) : i \in 1..Len(fields)}] :
        \A i \in 1..Len(fields) : inp[fields[i].name] \in FieldInputs(fields[i].v)}

\* What the radio (Single) or the check boxes (Multiple) can return
ExtrasInputs(cat) ==
    IF cat.extras = <<>> THEN {[name |-> NONE_LABEL, tick |-> {}]}
    ELSE IF ExtrasMode(cat) = "Single"
    THEN {[name |-> n, tick |-> {}] :
             n \in {NONE_LABEL} \cup {cat.extras[i].name : i \in 1..Len(cat.extras)}}
    ELSE {[name |-> NONE_LABEL, tick |-> t] : t \in SUBSET (1..Len(cat.extras))}

---------------------------------------------------------------------------
(* The state machine *)

\* The session state of the other pages as the INIT block leaves it, with an
\* empty inventory
PagesIdle ==
    /\ inventory = <<>>
    /\ confirm_delete_cat = None
    /\ viewed = None
    /\ message = ""
    /\ import_report = None
    /\ sku_history = <<>>
    /\ history_calls = 0
    /\ decoded = None
    /\ total_combinations = None
    /\ submitted = ""
    /\ uploaded = None
    /\ import_mode = "Replace"

Init ==
    /\ cat_data \in Categories
    /\ sel = <<>>
    /\ chosen = <<>>
    /\ base = <<>>
    /\ extras_codes = <<>>
    /\ sku = <<>>
    /\ selected_name = NONE_LABEL
    /\ ticked = {}
    /\ matrix_df = None
    /\ error = ""
    /\ pc = "init"
    /\ typed = <<>>
    /\ field_order = None
    /\ loaded = None
    /\ normalize_calls = 0
    /\ first_normalized = None
    /\ PagesIdle

\* The text typed into the text fields
HomeTyped(fields, inp) ==
    LET text == {i \in 1..Len(fields) : IsText(fields[i].v.options[1])}
    IN  [f \in {fields[i].name : i \in text} |-> inp[f].text]

\* One run of home() with the widgets returning inp and x
Home(inp, x) ==
    LET cat == normalize_fields(cat_data)
        fields == cat.fields
        sep == Separator(cat)
        s == HomeSel(fields, inp)
        c == HomeChosen(cat, x.name, x.tick)
        b == Join(sep, BaseParts(fields, s))
        e == Concat([i \in 1..Len(c) |-> c[i].code])
    IN  /\ cat_data' = cat
        /\ pc' = "home"
        /\ UNCHANGED <<matrix_df, field_order, loaded, normalize_calls, first_normalized>>
        /\ UNCHANGED page_vars
        /\ IF HomeRaises(fields, inp)
           THEN /\ error' = "KeyError"
                /\ UNCHANGED <<sel, chosen, base, extras_codes, sku, selected_name, ticked,
                               typed>>
           ELSE /\ error' = ""
                /\ typed' = HomeTyped(fields, inp)
                /\ sel' = s
                /\ chosen' = c
                /\ base' = b
                /\ extras_codes' = e
                /\ sku' = AssembleSku(sep, b, e)
                /\ selected_name' = x.name
                /\ ticked' = x.tick

HomePage ==
    \E inp \in HomeInputs(cat_data.fields) :
        \E x \in ExtrasInputs(cat_data) : Home(inp, x)

\* CategoryAfterMatrix also storing the separator it read (a setdefault)
CategoryAfterMatrixSetDefault(cat) ==
    [normalize_fields(cat) EXCEPT !.settings.separator = Some(Separator(cat))]

\* What generate_full_matrix leaves in the caller's dictionary: line 146
\* normalizes it in place, nothing else is written
CategoryAfterMatrix(cat) == normalize_fields(cat)

\* One call of generate_full_matrix(cat_data), the result kept
GenerateFullMatrix ==
    /\ cat_data' = CategoryAfterMatrix(cat_data)
    /\ pc' = "matrix"
    /\ UNCHANGED <<sel, chosen, base, extras_codes, sku, selected_name, ticked,
                   typed, field_order, loaded, normalize_calls, first_normalized>>
    /\ UNCHANGED page_vars
    /\ IF MatrixRaises(cat_data.fields)
       THEN error' = "KeyError" /\ UNCHANGED matrix_df
       ELSE error' = "" /\ matrix_df' = Some(generate_full_matrix(cat_data))

Next == HomePage \/ GenerateFullMatrix

Spec == Init /\ [][Next]_vars

---------------------------------------------------------------------------
(* The helpers called on their own: normalize_fields and ordered_fields on   *)
(* field mappings of every shape a stored file can hold                      *)

MaxFields == 3            \* fields per generated mapping
MaxNormalizeCalls == 2    \* direct calls of normalize_fields

AllFieldNames == <<"Brand", "Capacity", "Model", "Size">>

NumFields == IF MaxFields < Len(AllFieldNames) THEN MaxFields ELSE Len(AllFieldNames)

\* A dict that has no "options" key
DictWithoutOptions(ord) == [isdict |-> TRUE, order |-> ord, options |-> None]

OneOption == <<DropOption(<<"A">>)>>

ShapeValues ==
    {BareList(OneOption), DictWithoutOptions(Some(1))}
    \cup {FieldDict(ord, OneOption) : ord \in {None, Some(1), Some(2), Some(999), Some(1000)}}

ShapeMaps ==
    UNION {{m \in [1..k -> [name : Range(AllFieldNames), v : ShapeValues]] :
               \A i \in 1..k : m[i].name = AllFieldNames[i]}
           : k \in 0..NumFields}

ShapeCategories ==
    {Category(f, <<Extra(<<"R">>, <<"x">>, Some(1))>>, Settings(sep, Some("Multiple"))) :
        f \in ShapeMaps, sep \in {None, Some(<<"-">>)}}

InitFields ==
    /\ cat_data \in ShapeCategories
    /\ sel = <<>>
    /\ chosen = <<>>
    /\ base = <<>>
    /\ extras_codes = <<>>
    /\ sku = <<>>
    /\ selected_name = NONE_LABEL
    /\ ticked = {}
    /\ matrix_df = None
    /\ error = ""
    /\ pc = "init"
    /\ typed = <<>>
    /\ field_order = None
    /\ loaded = Some(cat_data)
    /\ normalize_calls = 0
    /\ first_normalized = None
    /\ PagesIdle

\* One call of normalize_fields(cat_data)
NormalizeFields ==
    /\ normalize_calls < MaxNormalizeCalls
    /\ cat_data' = normalize_fields(cat_data)
    /\ normalize_calls' = normalize_calls + 1
    /\ first_normalized' =
          IF normalize_calls = 0 THEN Some(normalize_fields(cat_data)) ELSE first_normalized
    /\ error' = ""
    /\ pc' = "normalize"
    /\ UNCHANGED <<sel, chosen, base, extras_codes, sku, selected_name, ticked,
                   matrix_df, typed, field_order, loaded>>
    /\ UNCHANGED page_vars

\* fields[k].get("order", 999) raises AttributeError on a bare list
OrderedFieldsRaises(fields) == \E i \in 1..Len(fields) : ~fields[i].v.isdict

\* One call of ordered_fields(cat_data["fields"]), the result kept
OrderedFields ==
    /\ pc' = "ordered"
    /\ IF OrderedFieldsRaises(cat_data.fields)
       THEN error' = "AttributeError" /\ UNCHANGED field_order
       ELSE error' = "" /\ field_order' = Some(ordered_fields(cat_data.fields))
    /\ UNCHANGED <<cat_data, sel, chosen, base, extras_codes, sku, selected_name, ticked,
                   matrix_df, typed, loaded, normalize_calls, first_normalized>>
    /\ UNCHANGED page_vars

NextFields == NormalizeFields \/ OrderedFields \/ GenerateFullMatrix

SpecFields == InitFields /\ [][NextFields]_vars

---------------------------------------------------------------------------
(* The pages on configurations whose options or extras lack the "code" key  *)

NoCodeOption == [code |-> None, name |-> <<"n">>, order |-> None, type |-> None]

ExtraNoCode(n, ord) == [code |-> None, name |-> n, order |-> ord]

MissingCodeMaps ==
    UNION {{m \in [1..k -> [name : Range(FieldNameSeq),
                            v : {FieldDict(Some(i), o) :
                                    i \in 1..Len(FieldNameSeq),
                                    o \in SeqsUpTo({DropOption(<<"A">>), NoCodeOption}, MaxOpts)}]] :
               \A i \in 1..k : m[i].name = FieldNameSeq[i] /\ m[i].v.order = Some(i)}
           : k \in 0..Len(FieldNameSeq)}

MissingCodeCategories ==
    {Category(f, e, Settings(Some(<<"-">>), Some(mode))) :
        f \in MissingCodeMaps,
        e \in {<<>>,
               <<ExtraNoCode(<<"x">>, Some(1))>>,
               <<Extra(<<"R">>, <<"x">>, Some(1)), ExtraNoCode(<<"y">>, Some(2))>>},
        mode \in {"Single", "Multiple"}}

InitMissingCode ==
    /\ cat_data \in MissingCodeCategories
    /\ sel = <<>>
    /\ chosen = <<>>
    /\ base = <<>>
    /\ extras_codes = <<>>
    /\ sku = <<>>
    /\ selected_name = NONE_LABEL
    /\ ticked = {}
    /\ matrix_df = None
    /\ error = ""
    /\ pc = "init"
    /\ typed = <<>>
    /\ field_order = None
    /\ loaded = None
    /\ normalize_calls = 0
    /\ first_normalized = None
    /\ PagesIdle

SpecMissingCode == InitMissingCode /\ [][Next]_vars

---------------------------------------------------------------------------
(* Properties of the assembler *)

\* home() ran to the end: sel, chosen, base, extras_codes and sku are its results
HomeRan == pc = "home" /\ error = ""

\* s has no leading, trailing or doubled separator
SeparatorPlacementOk(s, sep) ==
    /\ ~StartsWith(s, sep)
    /\ ~EndsWith(s, sep)
    /\ ~Contains(s, sep \o sep)

\* No selected code and no chosen extra code has a character of the separator
NoSeparatorCharInCodes ==
    LET sepchars == Range(Separator(cat_data))
    IN  /\ \A f \in DOMAIN sel : Range(sel[f].code) \cap sepchars = {}
        /\ \A i \in 1..Len(chosen) : Range(chosen[i].code) \cap sepchars = {}

\* C1 as stated: with a non-empty separator, whatever the selected codes and
\* the chosen extras are, the SKU of home() has no leading separator, no
\* trailing separator and no two adjacent separators.
C1_SeparatorPlacementAnyCodes ==
    (HomeRan /\ Separator(cat_data) # <<>>)
        => SeparatorPlacementOk(sku, Separator(cat_data))

\* C1 amended: with a non-empty separator, and no selected code or chosen
\* extra code containing a character of the separator, the SKU of home() has
\* no leading separator, no trailing separator and no two adjacent separators.
C1_SeparatorPlacement ==
    (HomeRan /\ Separator(cat_data) # <<>> /\ NoSeparatorCharInCodes)
        => SeparatorPlacementOk(sku, Separator(cat_data))

\* A field selected with an empty code next to a non-empty one, and an extra
C1_Witness ==
    /\ HomeRan
    /\ Separator(cat_data) # <<>>
    /\ NoSeparatorCharInCodes
    /\ \E f, g \in DOMAIN sel : sel[f].code = <<>> /\ sel[g].code # <<>>
    /\ extras_codes # <<>>
    /\ Contains(sku, Separator(cat_data))

\* C2: the SKU is base + sep + extras_codes when base, extras_codes and sep
\* are all non-empty, and base + extras_codes with nothing in between in
\* every other case.
C2_ConditionalSeparator ==
    HomeRan =>
        sku = IF base # <<>> /\ extras_codes # <<>> /\ Separator(cat_data) # <<>>
              THEN base \o Separator(cat_data) \o extras_codes
              ELSE base \o extras_codes

\* Base, extras and separator all non-empty: the separator is inserted
C2_Witness ==
    /\ HomeRan
    /\ base # <<>>
    /\ extras_codes # <<>>
    /\ Separator(cat_data) # <<>>
    /\ Len(sku) = Len(base) + Len(Separator(cat_data)) + Len(extras_codes)

\* The j-th smallest element of a set of numbers
Nth(S, j) == CHOOSE p \in S : Cardinality({q \in S : q < p}) = j - 1

\* The codes selected for the fields, in ordered_fields order, those of
\* fields with an empty or no selection left out
SelectedNonEmptyCodes ==
    LET names == ordered_fields(cat_data.fields)
        idx == {i \in 1..Len(names) :
                   names[i] \in DOMAIN sel /\ Len(sel[names[i]].code) > 0}
    IN  [j \in 1..Cardinality(idx) |-> sel[names[Nth(idx, j)]].code]

\* C7: base is the separator-join of the selected codes in ordered_fields
\* order, the fields with an empty or absent code left out.
C7_BaseSkipsEmptyCodes ==
    HomeRan => base = Join(Separator(cat_data), SelectedNonEmptyCodes)

\* Two selected fields that ordered_fields swaps, the first with an empty code
C7_Witness ==
    /\ HomeRan
    /\ Separator(cat_data) # <<>>
    /\ Len(cat_data.fields) = 2
    /\ ordered_fields(cat_data.fields)[1] = cat_data.fields[2].name
    /\ DOMAIN sel = {cat_data.fields[1].name, cat_data.fields[2].name}
    /\ sel[cat_data.fields[2].name].code = <<>>
    /\ sel[cat_data.fields[1].name].code # <<>>
    /\ base = sel[cat_data.fields[1].name].code

\* Extra at position p sorts before the one at position q: smaller order
\* (999 when it has none), the stored position breaking ties
ExtraBefore(p, q) ==
    LET kp == Get(cat_data.extras[p].order, DEFAULT_ORDER)
        kq == Get(cat_data.extras[q].order, DEFAULT_ORDER)
    IN  kp < kq \/ (kp = kq /\ p < q)

\* The codes of the extras at the positions P, in ascending Extra order
CodesInExtraOrder(P) ==
    LET at(j) == CHOOSE p \in P : Cardinality({q \in P : ExtraBefore(q, p)}) = j - 1
    IN  Concat([j \in 1..Cardinality(P) |-> cat_data.extras[at(j)].code[1]])

\* The positions of the extras with a code that the user chose: the ticked
\* ones (Multiple), those carrying the selected name (Single)
ChoosablePositions ==
    LET ex == cat_data.extras
    IN  IF ExtrasMode(cat_data) = "Single"
        THEN {p \in 1..Len(ex) : ex[p].name = selected_name /\ HasCode(ex[p])}
        ELSE {p \in 1..Len(ex) : p \in ticked /\ HasCode(ex[p])}

\* C8: extras_codes is the concatenation, without separator, of the codes of
\* the chosen extras in ascending Extra order; extras with an empty code add
\* nothing.  In Multiple mode the chosen extras are the ticked ones, in
\* Single mode one extra with the selected name.
C8_ExtrasInExtraOrder ==
    HomeRan =>
        IF ExtrasMode(cat_data) = "Single"
        THEN \/ ChoosablePositions = {} /\ extras_codes = <<>>
             \/ \E p \in ChoosablePositions : extras_codes = CodesInExtraOrder({p})
        ELSE extras_codes = CodesInExtraOrder(ChoosablePositions)

\* Two ticked extras with codes, stored in the reverse of their Extra order
C8_Witness ==
    /\ HomeRan
    /\ ExtrasMode(cat_data) = "Multiple"
    /\ ticked = {1, 2}
    /\ HasCode(cat_data.extras[1]) /\ HasCode(cat_data.extras[2])
    /\ cat_data.extras[1].code # cat_data.extras[2].code
    /\ ExtraBefore(2, 1)
    /\ extras_codes = cat_data.extras[2].code[1] \o cat_data.extras[1].code[1]

---------------------------------------------------------------------------
(* Properties of the matrix export *)

\* generate_full_matrix returned a data frame
MatrixRan == matrix_df # None /\ error = ""

MatrixRows == matrix_df[1].rows
MatrixColumns == matrix_df[1].columns

\* The fields of the category that are FreeText, and those that are drop-downs
TextFieldPositions ==
    {i \in 1..Len(cat_data.fields) : IsText(cat_data.fields[i].v.options[1])}

DropdownFieldPositions == (1..Len(cat_data.fields)) \ TextFieldPositions

RECURSIVE Pow2(_)
Pow2(n) == IF n = 0 THEN 1 ELSE 2 * Pow2(n - 1)

\* The product over the drop-down fields at the positions P of the number of
\* options, a field with zero options counting as 1
RECURSIVE OptionCountProduct(_)
OptionCountProduct(P) ==
    IF P = {} THEN 1
    ELSE LET p == CHOOSE q \in P : TRUE
             n == Len(cat_data.fields[p].v.options[1])
         IN  (IF n = 0 THEN 1 ELSE n) * OptionCountProduct(P \ {p})

\* The number of extras with a non-empty code
ExtrasWithCode ==
    Cardinality({i \in 1..Len(cat_data.extras) : HasCode(cat_data.extras[i])})

\* The row, if home() were run with exactly its codes: every column's field
\* selected with the row's code, nothing typed into text fields, no extra
RowIsSelection(r) ==
    /\ chosen = <<>>
    /\ \A i \in 1..Len(r.combo) :
          /\ MatrixColumns[i + 1] \in DOMAIN sel
          /\ sel[MatrixColumns[i + 1]].code = r.combo[i]
    /\ \A f \in DOMAIN sel :
          f \notin Range(MatrixColumns) => sel[f].code = <<>>

\* C3: assembling with home() from the codes and extras of a row of the
\* matrix gives the SKU of that row.
C3_AssemblerMatrixConsistency ==
    (HomeRan /\ matrix_df # None) =>
        \A i \in 1..Len(MatrixRows) :
            RowIsSelection(MatrixRows[i]) => sku = MatrixRows[i].SKU

\* C4: in Multiple mode the number of rows is the product of the option
\* counts of the drop-down fields (zero options counting as 1) times 2^n,
\* n the number of extras with a non-empty code.
C4_CardinalityMultiple ==
    (MatrixRan /\ ExtrasMode(cat_data) = "Multiple") =>
        Len(MatrixRows) = OptionCountProduct(DropdownFieldPositions) * Pow2(ExtrasWithCode)

\* C5: in Single mode the number of rows is the product of the option counts
\* of the drop-down fields (zero options counting as 1) times 1 + n, n the
\* number of extras with a non-empty code.
C5_CardinalitySingle ==
    (MatrixRan /\ ExtrasMode(cat_data) = "Single") =>
        Len(MatrixRows) = OptionCountProduct(DropdownFieldPositions) * (1 + ExtrasWithCode)

BlastMachineSkus ==
    {<<"B", "L", "-", "2", "0">>,
     <<"B", "L", "-", "2", "0", "-", "R">>,
     <<"B", "L", "-", "2", "0", "-", "W">>,
     <<"B", "L", "-", "2", "0", "-", "R", "W">>,
     <<"B", "L", "-", "2", "4">>,
     <<"B", "L", "-", "2", "4", "-", "R">>,
     <<"B", "L", "-", "2", "4", "-", "W">>,
     <<"B", "L", "-", "2", "4", "-", "R", "W">>}

\* C6: for the Blast Machine category in Multiple mode the matrix has exactly
\* 8 rows, with the SKUs BL-20, BL-20-R, BL-20-W, BL-20-RW, BL-24, BL-24-R,
\* BL-24-W and BL-24-RW.
C6_BlastMachineMatrix ==
    (MatrixRan /\ cat_data = BlastMachine("Multiple")) =>
        /\ Len(MatrixRows) = 8
        /\ {MatrixRows[i].SKU : i \in 1..Len(MatrixRows)} = BlastMachineSkus

\* The category without its FreeText fields
WithoutTextFields(cat) ==
    [cat EXCEPT !.fields =
        SelectSeq(cat.fields, LAMBDA fld : ~IsText(fld.v.options[1]))]

\* A FreeText field stands alongside a drop-down field
TextAlongsideDropdown == TextFieldPositions # {} /\ DropdownFieldPositions # {}

\* C9 as stated: with a FreeText field alongside drop-down fields, every row
\* has that field as a column, and the number of rows is that of the same
\* category without the FreeText field.
C9_TextFieldInEveryRow ==
    (MatrixRan /\ TextAlongsideDropdown) =>
        /\ \A i \in 1..Len(MatrixRows) : \A p \in TextFieldPositions :
               cat_data.fields[p].name \in Range(MatrixColumns)
        /\ Len(MatrixRows) = Len(generate_full_matrix(WithoutTextFields(cat_data)).rows)

\* C9 amended: with a FreeText field alongside drop-down fields, no row has
\* that field as a column (text fields are left out of the matrix), and the
\* number of rows is that of the same category without the FreeText field.
C9_TextFieldExcluded ==
    (MatrixRan /\ TextAlongsideDropdown) =>
        /\ \A p \in TextFieldPositions :
               cat_data.fields[p].name \notin Range(MatrixColumns)
        /\ Len(MatrixRows) = Len(generate_full_matrix(WithoutTextFields(cat_data)).rows)

\* A matrix of two rows for a text field and a drop-down of two options
C9_Witness ==
    /\ MatrixRan
    /\ TextAlongsideDropdown
    /\ Len(MatrixRows) = 2
    /\ Len(MatrixColumns) = 2

\* Some field is a drop-down (not FreeText) with at least one option
HasDropdownWithOptions ==
    \E p \in DropdownFieldPositions : cat_data.fields[p].v.options[1] # <<>>

---------------------------------------------------------------------------
(* Properties of normalize_fields and ordered_fields *)

LoadedFields == loaded[1].fields

\* C11: normalize_fields is idempotent: applied again to a category it has
\* already normalized, it leaves the fields as the first application made them.
C11_NormalizeIdempotent ==
    normalize_calls >= 2 => cat_data.fields = first_normalized[1].fields

\* A mapping mixing a bare list and a dict, normalized twice
C11_Witness ==
    /\ normalize_calls = 2
    /\ pc = "normalize"
    /\ \E i, j \in 1..Len(LoadedFields) :
          ~LoadedFields[i].v.isdict /\ LoadedFields[j].v.isdict
    /\ cat_data.fields # LoadedFields

\* ordered_fields returned: field_order is its result for cat_data.fields
OrderedRan == field_order # None /\ ~OrderedFieldsRaises(cat_data.fields)

\* The position in the mapping of the field named f
PositionOf(fields, f) == CHOOSE i \in 1..Len(fields) : fields[i].name = f

\* Every field has an explicit order and no two fields have the same
DistinctExplicitOrders(fields) ==
    /\ \A i \in 1..Len(fields) : fields[i].v.order # None
    /\ \A i, j \in 1..Len(fields) : i # j => fields[i].v.order # fields[j].v.order

InsertionOrders(n) == {p \in [1..n -> 1..n] : \A i, j \in 1..n : i # j => p[i] # p[j]}

\* The same fields inserted in the order p
Reinserted(fields, p) == [i \in 1..Len(fields) |-> fields[p[i]]]

\* C12: for fields with pairwise distinct order values ordered_fields returns
\* the names in ascending order, and the same sequence for every insertion
\* order of the same fields.
C12_DeterministicOrdering ==
    (OrderedRan /\ DistinctExplicitOrders(cat_data.fields)) =>
        LET fields == cat_data.fields
            res == field_order[1]
        IN  /\ \A i, j \in 1..Len(res) :
                   i < j => fields[PositionOf(fields, res[i])].v.order[1]
                            < fields[PositionOf(fields, res[j])].v.order[1]
            /\ \A p \in InsertionOrders(Len(fields)) :
                   ordered_fields(Reinserted(fields, p)) = res

\* Three fields of distinct orders, inserted in descending order
C12_Witness ==
    /\ OrderedRan
    /\ DistinctExplicitOrders(cat_data.fields)
    /\ Len(cat_data.fields) = 3
    /\ field_order[1] = <<cat_data.fields[3].name, cat_data.fields[2].name,
                           cat_data.fields[1].name>>

\* C13: after normalize_fields every field is a structure with options, a
\* raw value having been passed through unchanged only if it already held
\* options, so that the read of fields[f]["options"] by a later
\* generate_full_matrix succeeds.  (The claim also asks for an integer order
\* in every field; already this part fails.)
C13_CanonicalAfterNormalize ==
    normalize_calls >= 1 =>
        /\ \A i \in 1..Len(cat_data.fields) :
               /\ cat_data.fields[i].v.isdict
               /\ cat_data.fields[i].v.options # None
               /\ cat_data.fields[i].v = LoadedFields[i].v
                      => LoadedFields[i].v.options # None
        /\ pc = "matrix" => error = ""

\* C14: normalize_fields wraps each bare option list as {order: i, options:
\* value}, i the 1-based position of the field in the whole raw mapping
\* (canonical fields counted), and keeps the names and their iteration order.
C14_WrapsBareLists ==
    normalize_calls >= 1 =>
        /\ Len(cat_data.fields) = Len(LoadedFields)
        /\ \A i \in 1..Len(LoadedFields) :
               /\ cat_data.fields[i].name = LoadedFields[i].name
               /\ IF LoadedFields[i].v.isdict
                  THEN cat_data.fields[i].v = LoadedFields[i].v
                  ELSE /\ cat_data.fields[i].v.isdict
                       /\ cat_data.fields[i].v.order = <<i>>
                       /\ cat_data.fields[i].v.options = LoadedFields[i].v.options

\* A bare list in second position, behind a canonical field, gets order 2
C14_Witness ==
    /\ normalize_calls >= 1
    /\ Len(LoadedFields) >= 2
    /\ LoadedFields[1].v.isdict
    /\ ~LoadedFields[2].v.isdict
    /\ cat_data.fields[2].v.order = <<2>>
    /\ cat_data.fields[2].name = "Capacity"

---------------------------------------------------------------------------
(* Further properties of the assembler *)

\* C15: home() never raises: whatever the category and the selection, also
\* with options or extras that have an empty code or no "code" key, it runs
\* to the end.
C15_AssemblyNeverRaises == pc = "home" => error = ""

\* The extras that have a non-empty code, as positions in the stored list
CodedExtras == {i \in 1..Len(cat_data.extras) : HasCode(cat_data.extras[i])}

\* C16: in Single mode at most one extra is chosen, and it is an extra with
\* the selected name and a non-empty code, whatever the extras are; in
\* Multiple mode the chosen extras are exactly the ticked extras that have a
\* non-empty code.
C16_SingleAtMostOne ==
    HomeRan /\ cat_data.extras # <<>> =>
        IF ExtrasMode(cat_data) = "Single"
        THEN /\ Len(chosen) <= 1
             /\ \A j \in 1..Len(chosen) :
                   /\ chosen[j].name = selected_name
                   /\ \E i \in CodedExtras :
                         /\ cat_data.extras[i].name = selected_name
                         /\ cat_data.extras[i].code[1] = chosen[j].code
             /\ Len(extras_codes) = IF chosen = <<>> THEN 0 ELSE Len(chosen[1].code)
        ELSE /\ Len(chosen) = Cardinality(ticked \cap CodedExtras)
             /\ \A i \in ticked \cap CodedExtras :
                   \E j \in 1..Len(chosen) :
                       /\ chosen[j].code = cat_data.extras[i].code[1]
                       /\ chosen[j].name = cat_data.extras[i].name

\* Single mode, two extras with the selected name and a code: one is chosen
C16_Witness ==
    /\ HomeRan
    /\ ExtrasMode(cat_data) = "Single"
    /\ Cardinality({i \in CodedExtras : cat_data.extras[i].name = selected_name}) = 2
    /\ Len(chosen) = 1

\* The selected codes as in SelectedNonEmptyCodes, field f left out
SelectedNonEmptyCodesWithout(f) ==
    LET names == ordered_fields(cat_data.fields)
        idx == {i \in 1..Len(names) :
                   /\ names[i] # f
                   /\ names[i] \in DOMAIN sel
                   /\ Len(sel[names[i]].code) > 0}
    IN  [j \in 1..Cardinality(idx) |-> sel[names[Nth(idx, j)]].code]

\* C17: for a text field the selection's code and name are both the typed
\* string, unchanged, whatever it is; an empty string leaves the base as it
\* is without the field.
C17_FreeTextIsRaw ==
    HomeRan =>
        \A f \in DOMAIN typed :
            /\ f \in DOMAIN sel
            /\ sel[f].code = typed[f]
            /\ sel[f].name = typed[f]
            /\ typed[f] = <<>> =>
                  base = Join(Separator(cat_data), SelectedNonEmptyCodesWithout(f))

\* A text field with the separator character typed, next to an empty one
C17_Witness ==
    /\ HomeRan
    /\ \E f, g \in DOMAIN typed :
          /\ typed[f] = <<"-">>
          /\ sel[f].code = <<"-">>
          /\ typed[g] = <<>>
          /\ base = <<"-">>

WrappedAt(v, i) ==
    IF v.isdict THEN v ELSE [isdict |-> TRUE, order |-> Some(i), options |-> v.options]

NoOrderFields(fields) == {i \in 1..Len(fields) : fields[i].v.order = None}
ExplicitOrderFields(fields) == {i \in 1..Len(fields) : fields[i].v.order # None}

\* The place of the field at position i of the mapping in the result
PlaceOf(res, fields, i) == CHOOSE k \in 1..Len(res) : res[k] = fields[i].name

\* C19 as claimed: every field without an explicit order comes after every
\* field with an explicit order, whatever the explicit orders are.
C19_NoOrderAfterEveryExplicit ==
    OrderedRan =>
        LET fields == cat_data.fields
            res == field_order[1]
        IN  \A a \in NoOrderFields(fields), b \in ExplicitOrderFields(fields) :
                PlaceOf(res, fields, b) < PlaceOf(res, fields, a)

\* C19: a field without an explicit order comes after every field whose
\* explicit order is less than 999 and before every field whose explicit
\* order is more than 999; with a field of explicit order 999 it keeps the
\* insertion order.
C19_NoOrderSortsAsSentinel ==
    OrderedRan =>
        LET fields == cat_data.fields
            res == field_order[1]
        IN  \A a \in NoOrderFields(fields), b \in ExplicitOrderFields(fields) :
                LET ord == fields[b].v.order[1]
                IN  PlaceOf(res, fields, b) < PlaceOf(res, fields, a)
                        <=> (ord < DEFAULT_ORDER \/ (ord = DEFAULT_ORDER /\ b < a))

\* A field without order inserted first, with fields of order 1000 and 1
C19_Witness ==
    /\ OrderedRan
    /\ Len(cat_data.fields) = 3
    /\ cat_data.fields[1].v.order = None
    /\ cat_data.fields[2].v.order = Some(1000)
    /\ cat_data.fields[3].v.order = Some(1)
    /\ field_order[1] = <<cat_data.fields[3].name, cat_data.fields[1].name,
                           cat_data.fields[2].name>>

\* The sort key of the field at position i of the mapping
OrderKey(fields, i) == Get(fields[i].v.order, DEFAULT_ORDER)

\* C20: the result of ordered_fields holds every field name exactly once, a
\* before b whenever the order of a is less than the order of b, and
\* whenever the orders are equal and a was inserted before b.
C20_StablePermutation ==
    OrderedRan =>
        LET fields == cat_data.fields
            res == field_order[1]
        IN  /\ Len(res) = Len(fields)
            /\ \A i \in 1..Len(fields) :
                   Cardinality({k \in 1..Len(res) : res[k] = fields[i].name}) = 1
            /\ \A a, b \in 1..Len(fields) :
                   (\/ OrderKey(fields, a) < OrderKey(fields, b)
                    \/ (OrderKey(fields, a) = OrderKey(fields, b) /\ a < b))
                   => PlaceOf(res, fields, a) < PlaceOf(res, fields, b)

\* Two fields of equal order around a field of a smaller order
C20_Witness ==
    /\ OrderedRan
    /\ Len(cat_data.fields) = 3
    /\ cat_data.fields[1].v.order = Some(2)
    /\ cat_data.fields[2].v.order = Some(1)
    /\ cat_data.fields[3].v.order = Some(2)
    /\ field_order[1] = <<cat_data.fields[2].name, cat_data.fields[1].name,
                           cat_data.fields[3].name>>

---------------------------------------------------------------------------
(* The pages on drop-down fields whose options carry an order of their own  *)

OrderedOption(c, ord) == [code |-> Some(c), name |-> <<"n">> \o c, order |-> ord, type |-> None]

\* Option lists with pairwise distinct codes, stored in any order
OrderedOptionLists(f) ==
    LET codes == IF f = "Brand" THEN {<<"A">>, <<"B">>} ELSE {<<"C">>, <<"D">>}
    IN  {o \in SeqsUpTo({OrderedOption(c, ord) : c \in codes,
                                                 ord \in {None, Some(1), Some(2)}}, MaxOpts) :
            \A i, j \in 1..Len(o) : i # j => o[i].code # o[j].code}

OrderedOptionMaps ==
    UNION {{m \in [1..k -> [name : Range(FieldNameSeq),
                            v : UNION {{FieldDict(Some(i), o) : o \in OrderedOptionLists(FieldNameSeq[i])}
                                       : i \in 1..Len(FieldNameSeq)}]] :
               \A i \in 1..k : /\ m[i].name = FieldNameSeq[i]
                               /\ m[i].v \in {FieldDict(Some(i), o) :
                                                 o \in OrderedOptionLists(FieldNameSeq[i])}}
           : k \in 0..Len(FieldNameSeq)}

OrderedOptionCategories ==
    {Category(f, <<>>, Settings(Some(<<"-">>), Some("Single"))) : f \in OrderedOptionMaps}

InitOptionOrder ==
    /\ cat_data \in OrderedOptionCategories
    /\ sel = <<>>
    /\ chosen = <<>>
    /\ base = <<>>
    /\ extras_codes = <<>>
    /\ sku = <<>>
    /\ selected_name = NONE_LABEL
    /\ ticked = {}
    /\ matrix_df = None
    /\ error = ""
    /\ pc = "init"
    /\ typed = <<>>
    /\ field_order = None
    /\ loaded = None
    /\ normalize_calls = 0
    /\ first_normalized = None
    /\ PagesIdle

SpecOptionOrder == InitOptionOrder /\ [][Next]_vars

\* Option a of opts comes before option b in ascending option order, ties
\* by the position in the stored list
OptionBefore(opts, a, b) ==
    \/ Get(opts[a].order, DEFAULT_ORDER) < Get(opts[b].order, DEFAULT_ORDER)
    \/ (Get(opts[a].order, DEFAULT_ORDER) = Get(opts[b].order, DEFAULT_ORDER) /\ a < b)

\* The options of the field of matrix column k (the column after SKU)
ColumnOptions(k) ==
    LET p == CHOOSE q \in 1..Len(cat_data.fields) :
                 cat_data.fields[q].name = MatrixColumns[k + 1]
    IN  cat_data.fields[p].v.options[1]

\* C21: generate_full_matrix enumerates the options of every field in
\* ascending option order, ties by stored position: of two rows that first
\* differ in a column, the earlier row has the option that comes first in
\* that order, however the options are stored.
C21_OptionsInOptionOrder ==
    MatrixRan =>
        \A i, j \in 1..Len(MatrixRows) : \A k \in 1..(Len(MatrixColumns) - 1) :
            (/\ i < j
             /\ \A h \in 1..(k - 1) : MatrixRows[i].combo[h] = MatrixRows[j].combo[h]
             /\ MatrixRows[i].combo[k] # MatrixRows[j].combo[k])
            => LET opts == ColumnOptions(k)
               IN  \E a, b \in 1..Len(opts) :
                       /\ opts[a].code[1] = MatrixRows[i].combo[k]
                       /\ opts[b].code[1] = MatrixRows[j].combo[k]
                       /\ OptionBefore(opts, a, b)

---------------------------------------------------------------------------
(* Further properties of the assembler: drop-downs without options *)

\* The fields of the category that have an empty list of options
EmptyDropdownPositions ==
    {i \in 1..Len(cat_data.fields) : cat_data.fields[i].v.options[1] = <<>>}

\* The mapping without its i-th field
FieldsWithout(fields, i) ==
    [j \in 1..(Len(fields) - 1) |-> IF j < i THEN fields[j] ELSE fields[j + 1]]

\* The base home() builds from sel for the mapping fields
BaseOf(fields) ==
    LET names == ordered_fields(fields)
        idx == {i \in 1..Len(names) :
                   names[i] \in DOMAIN sel /\ Len(sel[names[i]].code) > 0}
    IN  Join(Separator(cat_data),
             [j \in 1..Cardinality(idx) |-> sel[names[Nth(idx, j)]].code])

\* C22: a drop-down field without options does not make home() fail, gets
\* no entry in sel, and the base and the SKU are what they are for the
\* category without the field.
C22_EmptyDropdownContributesNothing ==
    (pc = "home" /\ EmptyDropdownPositions # {}) =>
        /\ error = ""
        /\ \A i \in EmptyDropdownPositions :
              /\ cat_data.fields[i].name \notin DOMAIN sel
              /\ base = BaseOf(FieldsWithout(cat_data.fields, i))
              /\ sku = AssembleSku(Separator(cat_data),
                                   BaseOf(FieldsWithout(cat_data.fields, i)), extras_codes)

\* A drop-down without options ordered before a field with a selected code
C22_Witness ==
    /\ HomeRan
    /\ Len(cat_data.fields) = 2
    /\ 1 \in EmptyDropdownPositions
    /\ OrderedFieldPositions(cat_data.fields) = <<1, 2>>
    /\ cat_data.fields[2].name \in DOMAIN sel
    /\ base = sel[cat_data.fields[2].name].code
    /\ base # <<>>
    /\ sku = base

---------------------------------------------------------------------------
(* admin(): the categories of the inventory.  One action is one run of the  *)
(* page; viewed is the category selected in the page as it was last drawn   *)
(* to the end, None while a rerun is pending.                               *)

CategoryNames == {"Blast", "Hose"}

\* The dictionary the add form stores for a new category
NewCategory ==
    Category(<<>>, <<>>, Settings(Some(DEFAULT_SEPARATOR), Some(DEFAULT_EXTRAS_MODE)))

\* A category stored in the legacy format, and one in the current format
LegacyCategory ==
    Category(<<[name |-> "Brand", v |-> BareList(<<DropOption(<<"A">>)>>)]>>,
             <<>>, Settings(None, None))
StoredCategory ==
    Category(<<[name |-> "Brand",
                v |-> FieldDict(Some(1), <<DropOption(<<"A">>), DropOption(<<"B">>)>>)]>>,
             <<Extra(<<"R">>, <<"x">>, Some(1))>>,
             Settings(Some(<<"-">>), Some("Multiple")))

Inventories == UNION {[D -> {LegacyCategory, StoredCategory}] : D \in SUBSET CategoryNames}

\* An uploaded backup: None without the "inventory" key, or Some(inventory)
BackupFiles ==
    {None} \cup {Some([x \in D |-> IF x = "Blast" THEN LegacyCategory ELSE StoredCategory]) :
                    D \in SUBSET CategoryNames}

\* The state of home() and the helpers while they are not used
CoreIdle ==
    /\ cat_data = NewCategory
    /\ sel = <<>>
    /\ chosen = <<>>
    /\ base = <<>>
    /\ extras_codes = <<>>
    /\ sku = <<>>
    /\ selected_name = NONE_LABEL
    /\ ticked = {}
    /\ matrix_df = None
    /\ error = ""
    /\ pc = "init"
    /\ typed = <<>>
    /\ field_order = None
    /\ loaded = None
    /\ normalize_calls = 0
    /\ first_normalized = None

InitAdmin ==
    /\ CoreIdle
    /\ inventory \in Inventories
    /\ confirm_delete_cat = None
    /\ viewed = None
    /\ message = ""
    /\ import_report = None
    /\ sku_history = <<>>
    /\ history_calls = 0
    /\ decoded = None
    /\ total_combinations = None
    /\ submitted = ""
    /\ uploaded = None
    /\ import_mode = "Replace"

\* What the admin actions leave alone
AdminFrame ==
    UNCHANGED <<cat_data, sel, chosen, base, extras_codes, sku, selected_name, ticked,
                matrix_df, error, typed, field_order, loaded, normalize_calls,
                first_normalized, sku_history, history_calls, decoded,
                total_combinations>>

\* normalize_fields(inv[cat]) of the fields and export tabs
NormalizedAt(inv, c) == [inv EXCEPT ![c] = normalize_fields(@)]

\* The inventory after the tabs were drawn for the selected category
AfterTabs == IF viewed = None THEN inventory ELSE NormalizedAt(inventory, viewed[1])

\* The file in the uploader has no "inventory" key: the backup tab shows an
\* error in every run that draws it
InvalidUpload == uploaded = Some(None)

\* The page drawn with category c selected and no button pressed
AdminView(c) ==
    /\ c \in DOMAIN inventory
    /\ inventory' = NormalizedAt(inventory, c)
    /\ viewed' = Some(c)
    /\ message' = IF InvalidUpload THEN "error" ELSE message
    /\ pc' = "view"
    /\ UNCHANGED <<confirm_delete_cat, import_report, submitted, uploaded, import_mode>>
    /\ AdminFrame

\* NameTaken accepting every name
NameTakenNever(n, inv) == FALSE

\* if n in inv
NameTaken(n, inv) == n \in DOMAIN inv

\* inv with inv[n] = cat
WithCategory(inv, n, cat) ==
    [x \in DOMAIN inv \cup {n} |-> IF x = n THEN cat ELSE inv[x]]

\* The add form submitted with the name n.  An accepted name ends the run
\* with st.rerun(); otherwise the rest of the page is drawn.
AddCategory(n) ==
    /\ viewed # None \/ DOMAIN inventory = {}
    /\ pc' = "add"
    /\ submitted' = n
    /\ UNCHANGED <<confirm_delete_cat, import_report, uploaded, import_mode>>
    /\ AdminFrame
    /\ IF n = ""
       THEN /\ inventory' = AfterTabs
            /\ message' = IF viewed # None /\ InvalidUpload THEN "error" ELSE message
            /\ UNCHANGED viewed
       ELSE IF NameTaken(n, inventory)
       THEN /\ message' = "error"
            /\ inventory' = AfterTabs
            /\ UNCHANGED viewed
       ELSE /\ inventory' = WithCategory(inventory, n, NewCategory)
            /\ message' = "success"
            /\ viewed' = None

\* The "Delete Category" button, shown while confirm_delete_cat is not cat
RequestDelete ==
    /\ viewed # None
    /\ confirm_delete_cat # viewed
    /\ confirm_delete_cat' = viewed
    /\ viewed' = None
    /\ pc' = "request_delete"
    /\ UNCHANGED <<inventory, message, import_report, submitted, uploaded, import_mode>>
    /\ AdminFrame

\* RemoveKey keeping the key with an emptied category
RemoveKeySoft(inv, c) == [inv EXCEPT ![c] = NewCategory]

\* del inv[cat]
RemoveKey(inv, c) == [x \in DOMAIN inv \ {c} |-> inv[x]]

\* DeleteConfirmable without the test of confirm_delete_cat
DeleteConfirmableAlways(c) == TRUE

\* st.session_state.get("confirm_delete_cat") == cat: the warning with the
\* "Yes, Delete" and "Cancel" buttons is shown
DeleteConfirmable(c) == confirm_delete_cat = Some(c)

\* The "Yes, Delete" button
ConfirmDelete ==
    /\ viewed # None
    /\ DeleteConfirmable(viewed[1])
    /\ inventory' = RemoveKey(inventory, viewed[1])
    /\ confirm_delete_cat' = None
    /\ message' = "success"
    /\ viewed' = None
    /\ pc' = "confirm_delete"
    /\ UNCHANGED <<import_report, submitted, uploaded, import_mode>>
    /\ AdminFrame

\* The "Cancel" button
CancelDelete ==
    /\ viewed # None
    /\ DeleteConfirmable(viewed[1])
    /\ confirm_delete_cat' = None
    /\ viewed' = None
    /\ pc' = "cancel_delete"
    /\ UNCHANGED <<inventory, message, import_report, submitted, uploaded, import_mode>>
    /\ AdminFrame

\* A file put into the uploader of the backup tab: the page is drawn, and a
\* file without the "inventory" key is answered with an error.  The radio
\* starts at its first entry when it was not on the page before.
UploadFile(file) ==
    /\ viewed # None
    /\ uploaded' = Some(file)
    /\ inventory' = AfterTabs
    /\ message' = IF file = None THEN "error" ELSE message
    /\ import_mode' = IF uploaded = None \/ InvalidUpload THEN "Replace" ELSE import_mode
    /\ pc' = IF file = None THEN "import_invalid" ELSE "upload"
    /\ UNCHANGED <<confirm_delete_cat, viewed, import_report, submitted>>
    /\ AdminFrame

\* The import mode radio changed: the page is drawn
ChooseMode(mode) ==
    /\ viewed # None
    /\ uploaded # None
    /\ ~InvalidUpload
    /\ mode # import_mode
    /\ import_mode' = mode
    /\ inventory' = AfterTabs
    /\ pc' = "mode"
    /\ UNCHANGED <<confirm_delete_cat, viewed, message, import_report, submitted, uploaded>>
    /\ AdminFrame

\* MergeInventories letting the imported category replace the existing one
MergeInventoriesOverwrite(existing_inv, imported_inv) ==
    [x \in DOMAIN existing_inv \cup DOMAIN imported_inv |->
        IF x \in DOMAIN imported_inv THEN imported_inv[x] ELSE existing_inv[x]]

\* The merge loop: existing_inv[cat_name] = cat_data if cat_name not in existing_inv
MergeInventories(existing_inv, imported_inv) ==
    [x \in DOMAIN existing_inv \cup DOMAIN imported_inv |->
        IF x \in DOMAIN existing_inv THEN existing_inv[x] ELSE imported_inv[x]]

\* The counters of the merge loop
MergeAdded(existing_inv, imported_inv) ==
    Cardinality(DOMAIN imported_inv \ DOMAIN existing_inv)
MergeSkipped(existing_inv, imported_inv) ==
    Cardinality(DOMAIN imported_inv \cap DOMAIN existing_inv)

\* The "Import Database" button, with the outcome of GithubStorage().save.
\* The tabs before the backup tab are drawn first; a successful save ends
\* the run with st.rerun(), after a failed one the page stays as it is.
ImportBackup(saved) ==
    /\ viewed # None
    /\ uploaded # None
    /\ ~InvalidUpload
    /\ UNCHANGED <<confirm_delete_cat, submitted, uploaded, import_mode>>
    /\ AdminFrame
    /\ message' = IF saved THEN "success" ELSE "error"
    /\ IF import_mode = "Replace"
       THEN /\ inventory' = uploaded[1][1]
            /\ pc' = "import_replace"
            /\ viewed' = IF ~saved /\ viewed[1] \in DOMAIN uploaded[1][1]
                         THEN viewed ELSE None
            /\ UNCHANGED import_report
       ELSE /\ inventory' = MergeInventories(AfterTabs, uploaded[1][1])
            /\ import_report' = Some([added |-> MergeAdded(AfterTabs, uploaded[1][1]),
                                      skipped |-> MergeSkipped(AfterTabs, uploaded[1][1])])
            /\ pc' = "import_merge"
            /\ viewed' = IF saved THEN None ELSE viewed

NextAdmin ==
    \/ \E c \in CategoryNames : AdminView(c)
    \/ \E n \in CategoryNames \cup {""} : AddCategory(n)
    \/ RequestDelete
    \/ ConfirmDelete
    \/ CancelDelete
    \/ \E file \in BackupFiles : UploadFile(file)
    \/ \E mode \in {"Replace", "Merge"} : ChooseMode(mode)
    \/ \E saved \in BOOLEAN : ImportBackup(saved)

SpecAdmin == InitAdmin /\ [][NextAdmin]_vars

---------------------------------------------------------------------------
(* Properties of the admin page *)

\* Every category of inv is in inv2 as it is in inv
KeepsCategories(inv, inv2) ==
    \A x \in DOMAIN inv : x \in DOMAIN inv2 /\ inv2[x] = inv[x]

\* C23: a confirmed delete of the category c takes c out of the keys of the
\* inventory in that very step, and leaves the inventory with exactly the
\* other categories, each as it was: no entry is kept for c under any key.
C23_DeleteIsTotal ==
    [][(pc' = "confirm_delete" /\ viewed # None) =>
          /\ viewed[1] \in DOMAIN inventory
          /\ viewed[1] \notin DOMAIN inventory'
          /\ DOMAIN inventory' = DOMAIN inventory \ {viewed[1]}
          /\ KeepsCategories(inventory', inventory)]_vars

\* Blast deleted from an inventory of two categories: Hose alone is left
C23_Witness ==
    /\ pc = "confirm_delete"
    /\ confirm_delete_cat = None
    /\ inventory = [x \in {"Hose"} |-> StoredCategory]

\* C24 as claimed: an add with a name that is a key of the inventory shows
\* an error and leaves the inventory, every category of it, as it was; an
\* add with a new non-empty name adds that key with no fields, no extras,
\* separator "-" and extras mode Single, and keeps the other categories.
C24_DuplicateLeavesInventory ==
    [][pc' = "add" =>
          IF submitted' \in DOMAIN inventory
          THEN message' = "error" /\ inventory' = inventory
          ELSE submitted' # "" =>
                  /\ DOMAIN inventory' = DOMAIN inventory \cup {submitted'}
                  /\ KeepsCategories(inventory, inventory')
                  /\ inventory'[submitted'] = NewCategory
                  /\ message' = "success"]_vars

\* inv2 is inv, but for the fields of the category v selected in the page,
\* whose bare lists are wrapped
OnlySelectedNormalized(inv, inv2, v) ==
    /\ DOMAIN inv2 = DOMAIN inv
    /\ \A x \in DOMAIN inv :
          IF v # None /\ x = v[1]
          THEN /\ inv2[x].extras = inv[x].extras
               /\ inv2[x].settings = inv[x].settings
               /\ Len(inv2[x].fields) = Len(inv[x].fields)
               /\ \A i \in 1..Len(inv[x].fields) :
                     /\ inv2[x].fields[i].name = inv[x].fields[i].name
                     /\ inv2[x].fields[i].v = WrappedAt(inv[x].fields[i].v, i)
          ELSE inv2[x] = inv[x]

\* C24: an add with a name that is a key of the inventory shows an error;
\* the inventory keeps its keys and every category as it was, but for the
\* bare-list fields of the category selected in the page, which the run
\* wraps; an add with a new non-empty name adds that key with no fields, no
\* extras, separator "-" and extras mode Single, and keeps the other
\* categories as they were.
C24_UniqueCategoryNames ==
    [][pc' = "add" =>
          IF submitted' \in DOMAIN inventory
          THEN /\ message' = "error"
               /\ OnlySelectedNormalized(inventory, inventory', viewed)
          ELSE submitted' # "" =>
                  /\ DOMAIN inventory' = DOMAIN inventory \cup {submitted'}
                  /\ KeepsCategories(inventory, inventory')
                  /\ inventory'[submitted'].fields = <<>>
                  /\ inventory'[submitted'].extras = <<>>
                  /\ inventory'[submitted'].settings.separator = Some(<<"-">>)
                  /\ inventory'[submitted'].settings.extras_mode = Some("Single")
                  /\ message' = "success"]_vars

\* The name of a stored category submitted again: rejected, the category kept
C24_Witness ==
    /\ pc = "add"
    /\ message = "error"
    /\ submitted \in DOMAIN inventory
    /\ inventory[submitted] = StoredCategory
    /\ Cardinality(DOMAIN inventory) = 2

\* Cancel resets confirm_delete_cat and keeps the inventory; a confirmed
\* delete resets confirm_delete_cat
CancelAndConfirmReset ==
    /\ pc' = "cancel_delete" => confirm_delete_cat' = None /\ inventory' = inventory
    /\ pc' = "confirm_delete" => confirm_delete_cat' = None

\* C29 as claimed: a category leaves the inventory only in a step in which
\* confirm_delete_cat is that category and the user confirms; Cancel resets
\* confirm_delete_cat and keeps the inventory; after a confirmed delete
\* confirm_delete_cat is None.
C29_RemovedOnlyWhenConfirmed ==
    [][/\ \A c \in DOMAIN inventory \ DOMAIN inventory' :
              confirm_delete_cat = Some(c) /\ pc' = "confirm_delete"
       /\ CancelAndConfirmReset]_vars

\* C29: a category leaves the inventory only in a confirmed delete, a step
\* in which confirm_delete_cat is that category and the user presses "Yes,
\* Delete", or in a Replace import, which puts the uploaded inventory in the
\* place of the whole inventory; Cancel resets confirm_delete_cat and keeps
\* the inventory; after a confirmed delete confirm_delete_cat is None.
C29_RemovedByConfirmOrReplace ==
    [][/\ \A c \in DOMAIN inventory \ DOMAIN inventory' :
              \/ confirm_delete_cat = Some(c) /\ pc' = "confirm_delete"
              \/ pc' = "import_replace" /\ inventory' = uploaded[1][1]
       /\ CancelAndConfirmReset]_vars

\* A delete requested for Blast, Hose looked at meanwhile, then Blast
\* deleted after the confirmation: the request stayed pending
C29_Witness ==
    /\ pc = "confirm_delete"
    /\ confirm_delete_cat = None
    /\ DOMAIN inventory = {"Hose"}
    /\ inventory["Hose"] = NormalizedAt(inventory, "Hose")["Hose"]
    /\ inventory["Hose"].fields # LegacyCategory.fields
    /\ inventory["Hose"].extras = <<>>
    /\ inventory["Hose"].settings = Settings(None, None)

\* What a Merge import does to the inventory and reports
MergeStep ==
    pc' = "import_merge" =>
        /\ KeepsCategories(inventory, inventory')
        /\ DOMAIN inventory' = DOMAIN inventory \cup DOMAIN uploaded[1][1]
        /\ \A x \in DOMAIN uploaded[1][1] \ DOMAIN inventory :
               inventory'[x] = uploaded[1][1][x]
        /\ import_report'[1].added = Cardinality(DOMAIN uploaded[1][1] \ DOMAIN inventory)
        /\ import_report'[1].added + import_report'[1].skipped =
               Cardinality(DOMAIN uploaded[1][1])

\* C30 as claimed: a Merge import keeps every category of the inventory as
\* it was, adds every category of the file whose name was not a key, and
\* reports added and skipped counts that sum to the number of categories of
\* the file; a file without the inventory key is rejected with an error and
\* the inventory is left as it was.
C30_InvalidLeavesInventory ==
    [][/\ MergeStep
       /\ pc' = "import_invalid" =>
              /\ message' = "error"
              /\ inventory' = inventory]_vars

\* C30: a Merge import keeps every category of the inventory as it was, adds
\* every category of the file whose name was not a key, and reports added
\* and skipped counts that sum to the number of categories of the file; a
\* file without the inventory key is rejected with an error and nothing is
\* imported: the inventory keeps its keys and every category as it was, but
\* for the bare-list fields of the category selected in the page, which the
\* run wraps.
C30_MergeKeepsExisting ==
    [][/\ MergeStep
       /\ pc' = "import_invalid" =>
              /\ message' = "error"
              /\ uploaded' = Some(None)
              /\ UNCHANGED import_report
              /\ OnlySelectedNormalized(inventory, inventory', viewed)]_vars

\* A file with Blast and Hose merged into an inventory that had another Blast
C30_Witness ==
    /\ pc = "import_merge"
    /\ import_report = Some([added |-> 1, skipped |-> 1])
    /\ DOMAIN uploaded[1][1] = {"Blast", "Hose"}
    /\ inventory["Hose"] = uploaded[1][1]["Hose"]
    /\ inventory["Blast"] # uploaded[1][1]["Blast"]

---------------------------------------------------------------------------
(* add_to_sku_history, called by the "Save to History" button of home()     *)
(* with the SKU of the run, and the "Clear All History" button              *)

MAX_SKU_HISTORY == 15

MaxHistoryCalls == 3     \* calls of add_to_sku_history

\* The SKU made of i characters; the empty SKU for i = 0
SkuOf(i) == [j \in 1..i |-> "A"]

HistoryEntry(s, description, category, timestamp) ==
    [sku |-> s, description |-> description, category |-> category,
     timestamp |-> timestamp]

\* The history after SkuOf(1), ..., SkuOf(k) were saved in this order
SavedHistory(k) ==
    [j \in 1..k |-> HistoryEntry(SkuOf(k + 1 - j), "old", "Blast", "09:00")]

\* The SKUs saved: the empty one, old and recent ones of a full history, new ones
HistorySkus ==
    {SkuOf(i) : i \in (0..2) \cup ((MAX_SKU_HISTORY - 1)..(MAX_SKU_HISTORY + 2))}

InitHistory ==
    /\ CoreIdle
    /\ inventory = <<>>
    /\ confirm_delete_cat = None
    /\ viewed = None
    /\ message = ""
    /\ import_report = None
    /\ sku_history \in {SavedHistory(k) : k \in {0, MAX_SKU_HISTORY - 1, MAX_SKU_HISTORY}}
    /\ history_calls = 0
    /\ decoded = None
    /\ total_combinations = None
    /\ submitted = ""
    /\ uploaded = None
    /\ import_mode = "Replace"

\* WithoutSku keeping the entries of the same SKU
WithoutSkuKeepAll(history, s) == history

\* [h for h in history if h["sku"] != sku]
WithoutSku(history, s) == SelectSeq(history, LAMBDA h : h.sku # s)

\* InsertFront adding the entry at the end
InsertBack(history, entry) == Append(history, entry)

\* history.insert(0, entry)
InsertFront(history, entry) == <<entry>> \o history

\* LimitSize without the limit
LimitSizeOff(history) == history

\* if len(history) > MAX_SKU_HISTORY: history = history[:MAX_SKU_HISTORY]
LimitSize(history) ==
    IF Len(history) > MAX_SKU_HISTORY THEN SubSeq(history, 1, MAX_SKU_HISTORY)
    ELSE history

add_to_sku_history(history, s, description, category, timestamp) ==
    IF s = <<>> THEN history
    ELSE LimitSize(InsertFront(WithoutSku(history, s),
                               HistoryEntry(s, description, category, timestamp)))

HistoryFrame ==
    UNCHANGED <<cat_data, sel, chosen, base, extras_codes, selected_name, ticked,
                matrix_df, error, typed, field_order, loaded, normalize_calls,
                first_normalized, inventory, confirm_delete_cat, viewed, message,
                import_report, decoded, total_combinations, submitted, uploaded,
                import_mode>>

\* add_to_sku_history(sku, sku_description, cat) for the SKU s of the run
AddToSkuHistory(s, timestamp) ==
    /\ history_calls < MaxHistoryCalls
    /\ sku' = s
    /\ sku_history' = add_to_sku_history(sku_history, s, "new", "Blast", timestamp)
    /\ history_calls' = history_calls + 1
    /\ pc' = "history"
    /\ HistoryFrame

\* st.session_state["sku_history"] = []
ClearHistory ==
    /\ sku_history # <<>>
    /\ sku_history' = <<>>
    /\ pc' = "clear_history"
    /\ UNCHANGED <<sku, history_calls>>
    /\ HistoryFrame

NextHistory ==
    \/ \E s \in HistorySkus, timestamp \in {"09:00", "09:01"} : AddToSkuHistory(s, timestamp)
    \/ ClearHistory

SpecHistory == InitHistory /\ [][NextHistory]_vars

\* The SKUs of the history, in its order
HistorySkuSeq(history) == [i \in 1..Len(history) |-> history[i].sku]

\* C25: the history never holds more than MAX_SKU_HISTORY entries, no two
\* of its entries have the same SKU, and a call of add_to_sku_history with
\* an empty SKU leaves it as it is.
C25_HistoryBoundedAndUnique ==
    /\ [](/\ Len(sku_history) <= MAX_SKU_HISTORY
          /\ \A i, j \in 1..Len(sku_history) :
                 i # j => sku_history[i].sku # sku_history[j].sku)
    /\ [][(pc' = "history" /\ sku' = <<>>) => sku_history' = sku_history]_vars

\* A new SKU saved into a full history
C25_Witness ==
    /\ pc = "history"
    /\ Len(sku_history) = MAX_SKU_HISTORY
    /\ sku_history[1].sku = sku
    /\ Len(sku) = MAX_SKU_HISTORY + 1

\* C26: after a call with a non-empty SKU s, s is the first entry and the
\* other entries are the earlier entries of other SKUs in their earlier
\* order; if s was in the history the length is as before; if it was not
\* and the history was full, the entry dropped is the last one, the least
\* recently added.
C26_MostRecentFirst ==
    [][(pc' = "history" /\ sku' # <<>>) =>
          LET others == SelectSeq(HistorySkuSeq(sku_history), LAMBDA x : x # sku')
              present == \E i \in 1..Len(sku_history) : sku_history[i].sku = sku'
          IN  /\ sku_history'[1].sku = sku'
              /\ Tail(HistorySkuSeq(sku_history'))
                     = SubSeq(others, 1, Len(sku_history') - 1)
              /\ present => Len(sku_history') = Len(sku_history)
              /\ ~present =>
                    Len(sku_history') = IF Len(sku_history) < MAX_SKU_HISTORY
                                        THEN Len(sku_history) + 1 ELSE MAX_SKU_HISTORY
              /\ (~present /\ Len(sku_history) = MAX_SKU_HISTORY) =>
                    Tail(HistorySkuSeq(sku_history'))
                        = SubSeq(HistorySkuSeq(sku_history), 1, MAX_SKU_HISTORY - 1)]_vars

\* The oldest entry of a full history saved again and then a new SKU saved:
\* the re-added one stays, the one that had become the oldest is dropped
C26_Witness ==
    /\ pc = "history"
    /\ history_calls = 2
    /\ Len(sku_history) = MAX_SKU_HISTORY
    /\ Len(sku_history[1].sku) = MAX_SKU_HISTORY + 1
    /\ sku_history[2].sku = SkuOf(1)
    /\ sku_history[2].description = "new"
    /\ sku_history[MAX_SKU_HISTORY].sku = SkuOf(3)

---------------------------------------------------------------------------
(* decode_sku, called by the decoder page with the text typed in, here the  *)
(* SKU that home() assembled, on the inventory that holds cat_data          *)

\* s[n:]
DropFirst(s, n) == SubSeq(s, n + 1, Len(s))

\* The first option that is not of type text and whose non-empty code
\* remaining starts with, as a position in opts; 0 when there is none
FirstMatch(opts, remaining) ==
    LET hit == {j \in 1..Len(opts) :
                   /\ opts[j].type # Some("text")
                   /\ Get(opts[j].code, <<>>) # <<>>
                   /\ StartsWith(remaining, Get(opts[j].code, <<>>))}
    IN  IF hit = {} THEN 0 ELSE CHOOSE j \in hit : \A k \in hit : j <= k

\* The loop over ordered_fields(fields), from the k-th field on
RECURSIVE DecodeFields(_, _, _, _, _)
DecodeFields(fields, sep, k, remaining, parts) ==
    LET pos == OrderedFieldPositions(fields)
    IN  IF k > Len(pos) THEN [matched |-> TRUE, remaining |-> remaining, parts |-> parts]
        ELSE LET opts == Get(fields[pos[k]].v.options, <<>>)
                 m == FirstMatch(opts, remaining)
             IN  IF m # 0
                 THEN LET code == opts[m].code[1]
                          rest == DropFirst(remaining, Len(code))
                      IN  DecodeFields(fields, sep, k + 1,
                                       IF StartsWith(rest, sep)
                                       THEN DropFirst(rest, Len(sep)) ELSE rest,
                                       Append(parts, [field |-> fields[pos[k]].name,
                                                      code |-> code,
                                                      name |-> opts[m].name]))
                 ELSE IF opts # <<>> /\ opts[1].type # Some("text")
                 THEN [matched |-> FALSE, remaining |-> remaining, parts |-> parts]
                 ELSE DecodeFields(fields, sep, k + 1, remaining, parts)

\* remaining.replace(code, "", 1)
ReplaceFirst(s, code) ==
    LET at == CHOOSE i \in 1..(Len(s) + 1) :
                  StartsAt(s, i, code) /\ \A j \in 1..(i - 1) : ~StartsAt(s, j, code)
    IN  SubSeq(s, 1, at - 1) \o DropFirst(s, at + Len(code) - 1)

\* The loop over the extras, from the k-th extra on
RECURSIVE DecodeExtras(_, _, _, _)
DecodeExtras(extras, k, remaining, found) ==
    IF k > Len(extras) THEN [remaining |-> remaining, extras |-> found]
    ELSE LET code == Get(extras[k].code, <<>>)
         IN  IF code # <<>> /\ Contains(remaining, code)
             THEN DecodeExtras(extras, k + 1, ReplaceFirst(remaining, code),
                               Append(found, [field |-> "Extra", code |-> code,
                                              name |-> extras[k].name]))
             ELSE DecodeExtras(extras, k + 1, remaining, found)

\* s.strip(chars)
RECURSIVE Strip(_, _)
Strip(s, chars) ==
    IF s # <<>> /\ s[1] \in Range(chars) THEN Strip(Tail(s), chars)
    ELSE IF s # <<>> /\ s[Len(s)] \in Range(chars) THEN Strip(SubSeq(s, 1, Len(s) - 1), chars)
    ELSE s

\* The results decode_sku appends for one category of the inventory
decode_sku(sku_code, cat_name, cat) ==
    LET fields == normalize_fields(cat).fields
        sep == Separator(cat)
        f == DecodeFields(fields, sep, 1, sku_code, <<>>)
        e == DecodeExtras(cat.extras, 1, f.remaining, <<>>)
    IN  IF f.matched /\ f.parts # <<>>
        THEN <<[category |-> cat_name, parts |-> f.parts, extras |-> e.extras,
                remaining |-> Strip(e.remaining, sep)]>>
        ELSE <<>>

\* Categories of drop-down fields with non-empty codes, a code of Brand
\* being a prefix of another
PrefixCodes(f) == IF f = "Brand" THEN {<<"A">>, <<"A", "B">>} ELSE {<<"B">>, <<"C">>}

DecodeMaps ==
    UNION {{m \in [1..k -> [name : Range(FieldNameSeq),
                            v : UNION {{FieldDict(Some(i), o) :
                                           o \in SeqsUpTo({DropOption(c) : c \in PrefixCodes(FieldNameSeq[i])},
                                                          MaxOpts) \ {<<>>}}
                                       : i \in 1..Len(FieldNameSeq)}]] :
               \A i \in 1..k :
                   /\ m[i].name = FieldNameSeq[i]
                   /\ m[i].v.order = Some(i)
                   /\ \A j \in 1..Len(m[i].v.options[1]) :
                          m[i].v.options[1][j].code[1] \in PrefixCodes(FieldNameSeq[i])}
           : k \in 1..Len(FieldNameSeq)}

DecodeCategories ==
    {Category(f, e, Settings(Some(<<"-">>), Some("Single"))) :
        f \in DecodeMaps, e \in {<<>>, <<Extra(<<"R">>, <<"x">>, Some(1))>>}}

InitDecode ==
    /\ cat_data \in DecodeCategories
    /\ sel = <<>>
    /\ chosen = <<>>
    /\ base = <<>>
    /\ extras_codes = <<>>
    /\ sku = <<>>
    /\ selected_name = NONE_LABEL
    /\ ticked = {}
    /\ matrix_df = None
    /\ error = ""
    /\ pc = "init"
    /\ typed = <<>>
    /\ field_order = None
    /\ loaded = None
    /\ normalize_calls = 0
    /\ first_normalized = None
    /\ PagesIdle

\* The decoder page with the SKU of the last run of home() typed in
DecoderPage ==
    /\ pc = "home"
    /\ error = ""
    /\ sku # <<>>
    /\ decoded' = Some(decode_sku(sku, "Blast", cat_data))
    /\ cat_data' = normalize_fields(cat_data)
    /\ pc' = "decode"
    /\ UNCHANGED <<sel, chosen, base, extras_codes, sku, selected_name, ticked,
                   matrix_df, error, typed, field_order, loaded, normalize_calls,
                   first_normalized, inventory, confirm_delete_cat, viewed, message,
                   import_report, sku_history, history_calls, total_combinations,
                   submitted, uploaded, import_mode>>

NextDecode == HomePage \/ DecoderPage

SpecDecode == InitDecode /\ [][NextDecode]_vars

\* The (field, code) pairs of the selection, in ordered_fields order
SelectedPairs ==
    LET names == ordered_fields(cat_data.fields)
    IN  [i \in 1..Len(names) |-> [field |-> names[i], code |-> sel[names[i]].code]]

\* C27: decode_sku applied to the SKU home() assembled from one option per
\* field and no extra returns one result for the category, whose parts are
\* the selected (field, code) pairs in field order and whose remaining
\* portion is empty, also when a code of a field is a prefix of another code
\* of the field.
C27_DecodeRoundTrip ==
    (pc = "decode" /\ chosen = <<>>) =>
        /\ Len(decoded[1]) = 1
        /\ decoded[1][1].category = "Blast"
        /\ [i \in 1..Len(decoded[1][1].parts) |->
               [field |-> decoded[1][1].parts[i].field,
                code |-> decoded[1][1].parts[i].code]] = SelectedPairs
        /\ decoded[1][1].remaining = <<>>

---------------------------------------------------------------------------
(* admin(): the export tab, drawn for the category cat_data = inv[cat]      *)

\* PreviewCounts counting the text fields as well
PreviewCountsWithText(fields) ==
    LET pos == SelectSeq(OrderedFieldPositions(fields),
                         LAMBDA p : fields[p].v.options[1] # <<>>)
    IN  [i \in 1..Len(pos) |-> Len(fields[pos[i]].v.options[1])]

\* field_combos of the preview: len(opts) of every field that is not a text
\* field and has options, in ordered_fields order
PreviewCounts(fields) ==
    LET pos == SelectSeq(OrderedFieldPositions(fields),
                         LAMBDA p : /\ ~IsText(fields[p].v.options[1])
                                    /\ fields[p].v.options[1] # <<>>)
    IN  [i \in 1..Len(pos) |-> Len(fields[pos[i]].v.options[1])]

\* total_combinations = 1; for count in field_combos: total_combinations *= count
RECURSIVE TotalCombinations(_)
TotalCombinations(field_combos) ==
    IF field_combos = <<>> THEN 1
    ELSE Head(field_combos) * TotalCombinations(Tail(field_combos))

\* The tab drawn, with the "Generate Matrix" button pressed or not; the
\* button is there when the preview found a field to combine
ExportTab(click) ==
    LET cat == normalize_fields(cat_data)
        field_combos == PreviewCounts(cat.fields)
    IN  /\ cat_data' = cat
        /\ pc' = "export"
        /\ UNCHANGED <<sel, chosen, base, extras_codes, sku, selected_name, ticked,
                       typed, field_order, loaded, normalize_calls, first_normalized>>
        /\ UNCHANGED page_vars_but_total
        /\ IF MatrixRaises(cat.fields)
           THEN error' = "KeyError" /\ UNCHANGED <<matrix_df, total_combinations>>
           ELSE /\ error' = ""
                /\ total_combinations' =
                      IF field_combos = <<>> THEN None
                      ELSE Some(TotalCombinations(field_combos))
                /\ matrix_df' = IF click /\ field_combos # <<>>
                                THEN Some(generate_full_matrix(cat))
                                ELSE matrix_df

NextExport == \E click \in BOOLEAN : ExportTab(click)

SpecExport == Init /\ [][NextExport]_vars

\* The drop-down fields with options, as positions, in ordered_fields order
CombinedFields ==
    LET names == ordered_fields(cat_data.fields)
    IN  SelectSeq([i \in 1..Len(names) |-> PositionOf(cat_data.fields, names[i])],
                  LAMBDA p : p \in DropdownFieldPositions
                             /\ cat_data.fields[p].v.options[1] # <<>>)

\* One option position for every combined field
OptionChoices ==
    {ch \in [1..Len(CombinedFields) -> 1..MaxOpts] :
        \A k \in 1..Len(CombinedFields) :
            ch[k] <= Len(cat_data.fields[CombinedFields[k]].v.options[1])}

\* C28: the count the export tab announces is the number of rows of the
\* matrix generated for the category; both are the product of the option
\* counts of the drop-down fields with options; the columns after SKU are
\* these fields in ordered_fields order, the rows hold every combination of
\* their option codes, and the SKU of a row is the separator-join of its
\* column values.
C28_PreviewCountIsRowCount ==
    (pc = "export" /\ error = "" /\ matrix_df # None) =>
        /\ total_combinations # None
        /\ total_combinations[1] = Len(MatrixRows)
        /\ total_combinations[1] =
               OptionCountProduct({p \in DropdownFieldPositions :
                                      cat_data.fields[p].v.options[1] # <<>>})
        /\ MatrixColumns = <<"SKU">> \o [k \in 1..Len(CombinedFields) |->
                                            cat_data.fields[CombinedFields[k]].name]
        /\ \A ch \in OptionChoices :
               \E i \in 1..Len(MatrixRows) :
                   MatrixRows[i].combo =
                       [k \in 1..Len(CombinedFields) |->
                           cat_data.fields[CombinedFields[k]].v.options[1][ch[k]].code[1]]
        /\ \A i \in 1..Len(MatrixRows) :
               MatrixRows[i].SKU = Join(Separator(cat_data), MatrixRows[i].combo)

\* Two drop-downs of two options next to nothing else: four rows announced
C28_Witness ==
    /\ pc = "export"
    /\ error = ""
    /\ matrix_df # None
    /\ total_combinations = Some(4)
    /\ Len(MatrixRows) = 4
    /\ Len(MatrixColumns) = 3

====
